---- MODULE Spec2Model ----
(***************************************************************************)
(* Forward pass of the region-redrawing generator (generator.py).         *)
(*                                                                         *)
(* Tensors are followed by their shape (batch, height = width, channels)  *)
(* and by their value at one representative pixel and colour channel.     *)
(* Pixel values are integers: the tanh range [-1,1] is -1..1, real images *)
(* range over -MaxReal..MaxReal.  Mask weights are fixed-point numbers in *)
(* units of 1/WeightUnit, so a composite pixel is kept in units of        *)
(* 1/WeightUnit as well (pixel value times weight).                       *)
(***************************************************************************)
EXTENDS Integers, Sequences, FiniteSets, TLC

VARIABLES
    pc,                  \* position of the forward pass
    k,                   \* Generator.call: class index argument
    update_generator,    \* Generator.call: flag
    training,            \* Generator.call: flag
    batch_images_real,   \* real image, value at the pixel
    batch_masks_logits,  \* raw class scores at the pixel, one per mask channel
    size,                \* height = width of the real image and of the mask
    batch_size,          \* B
    selected,            \* <<self.k>> of the ClassGenerator chosen, <<>> if none
    z_k,                 \* <<noise>> once sampled, <<>> before
    batch_images_fake,   \* accumulator of ClassGenerator.call (units 1/WeightUnit)
    batch_region_k_fake, \* <<region>> once assigned (units 1/WeightUnit), <<>> unbound
    region_raw,          \* <<OutputBlock output>> (pixel units), <<>> before
    kk,                  \* loop variable of "for k in range(n_regions)"
    stage,               \* pipeline stage last completed (0 = none)
    x,                   \* feature map shape [h |-> .., ch |-> ..]
    sn_u,                \* spectral-normalization estimate (persists between calls)
    info_calls,          \* invocations of the information network in this call
    batch_z_k_hat,       \* <<estimate>> returned by the information network
    result,              \* <<>> or <<return value of Generator.call>>
    fault,               \* "" or the exception that ended the call
    hist,                \* observations of the pass (shape checks, contributions)
    prev                 \* <<>> or <<the last inference pass: its inputs and output>>

vars == <<pc, k, update_generator, training, batch_images_real, batch_masks_logits,
          size, batch_size, selected, z_k, batch_images_fake, batch_region_k_fake,
          region_raw, kk, stage, x, sn_u, info_calls, batch_z_k_hat, result, fault,
          hist, prev>>

(***************************************************************************)
(* Bounds of the model.                                                    *)
(***************************************************************************)
MaxRegions == 3
MaxReal == 2
MaxU == 1

LogitVals == {-200, 0, 1}
Sizes == {64, 128}
BatchSizes == {1, 2}
NoiseVals == {0, 1}

(***************************************************************************)
(* Program constants.                                                      *)
(***************************************************************************)
NClasses == 2          \* Generator(n_classes=2, ...)
BaseChannels == 32     \* base_channels
UpsampleSize == 2      \* UpSampling2D(size=(2, 2))
ImageChannels == 3     \* Conv2D(filters=3) of the OutputBlock
GridSize == 4          \* tf.reshape(x, (-1, 4, 4, output_channels))
WeightUnit == 256      \* resolution of a mask weight: 1.0 is WeightUnit
ExpUnit == 1000        \* resolution of the exponential: 1.0 is ExpUnit

(***************************************************************************)
(* Arithmetic helpers.                                                     *)
(***************************************************************************)
RECURSIVE SumSeq(_)
SumSeq(s) == IF s = <<>> THEN 0 ELSE Head(s) + SumSeq(Tail(s))

MaxSeq(s) == CHOOSE m \in {s[i] : i \in DOMAIN s} : \A i \in DOMAIN s : s[i] <= m

CeilDiv(a, b) == (a + b - 1) \div b

Abs(v) == IF v < 0 THEN -v ELSE v

(***************************************************************************)
(* Softmax(axis=3)(batch_masks_logits) at the pixel.  The exponential is   *)
(* ExpUnit * exp(d) rounded to the nearest integer for d <= 0 (the logits  *)
(* are shifted by their maximum); it underflows to 0 for very negative d,  *)
(* as the float32 exponential does.  The division rounds to the nearest    *)
(* multiple of 1/WeightUnit, so the weights of a pixel need not sum to     *)
(* exactly WeightUnit.                                                     *)
(***************************************************************************)
ExpFix(d) ==
    CASE d = 0 -> ExpUnit
      [] d = -1 -> 368
      [] d = -2 -> 135
      [] d = -3 -> 50
      [] d = -4 -> 18
      [] d = -5 -> 7
      [] d = -6 -> 2
      [] d = -7 -> 1
      [] OTHER -> 0

Softmax(logits) ==
    LET m == MaxSeq(logits)
        e == [c \in DOMAIN logits |-> ExpFix(logits[c] - m)]
        s == SumSeq(e)
    IN  [c \in DOMAIN logits |-> (2 * e[c] * WeightUnit + s) \div (2 * s)]

\* batch_masks_k for the Python (0-based) class index c
MaskOf(logits, c) == Softmax(logits)[c + 1]

(***************************************************************************)
(* ClassGenerator.__init__: the pipeline, stage by stage.                  *)
(*   1 block_1 (InputBlock)          5 up_res_block_4                      *)
(*   2 up_res_block_1                6 block_3 (SelfAttentionModule)       *)
(*   3 up_res_block_2                7 block_4 (ResidualUpsamplingBlock)   *)
(*   4 up_res_block_3                8 block_5 (OutputBlock)               *)
(***************************************************************************)
NStages == 8

UpResStages == {2, 3, 4, 5, 7}

\* a variant whose up_res_block_2 is built for 8 * base_channels inputs
InputFactor_Mismatch(s) == <<0, 16, 8, 8, 4, 2, 2, 1>>[s]

\* channel factor a stage is built to receive (0: the stage takes the noise)
InputFactor(s) == <<0, 16, 16, 8, 4, 2, 2, 1>>[s]

\* channel factor a stage produces (the OutputBlock's cbn keeps factor 1, its
\* convolution then produces ImageChannels)
OutputFactor(s) == <<16, 16, 8, 4, 2, 2, 1, 1>>[s]

\* a variant whose block_4 pools the mask by 4
MaskScale_Wrong(s) == <<0, 32, 16, 8, 4, 0, 4, 1>>[s]

\* pool size applied to the class mask before it is concatenated (1: the
\* OutputBlock concatenates the mask as it is; 0: the stage takes no mask)
MaskScale(s) == <<0, 32, 16, 8, 4, 0, 2, 1>>[s]

\* ConditionalBatchNormalization.call: gamma_c * x + beta_c broadcasts the
\* [B,1,1,filters] scale over the [B,H,W,ch] feature map
CbnOk(filters, ch) == filters = ch \/ filters = 1 \/ ch = 1

CbnChannels(filters, ch) == IF filters > ch THEN filters ELSE ch

\* AveragePooling2D(pool_size=mask_scale, padding='same'): output height
MaskPool(h, scale) == CeilDiv(h, scale)

\* UpSampling2D(size=(2, 2)): output height
Upsample(h) == UpsampleSize * h

\* SpectralNormalization: the estimate is refined once per call in training
\* mode and left alone otherwise; MaxU caps the number of refinements followed
SNStep(u, tr) == IF tr /\ u < MaxU THEN u + 1 ELSE u

\* SelfAttentionModule(output_channels): keeps the feature map's shape; its
\* residual sum needs the configured channel count
SelfAttentionOk(xx, channels) == xx.ch = channels

\* a variant without the activation
Tanh_Missing(v) == v

\* tanh, to the nearest pixel value
Tanh(v) == IF v >= 1 THEN 1 ELSE IF v <= -1 THEN -1 ELSE 0

\* Pre-activation of the OutputBlock's convolution at the pixel: a fixed
\* function of everything the pipeline reads (noise, normalized weights,
\* class mask); the learned weights themselves are constant during a pass
ConvOut(z, u, m) == ((2 * z + 3 * u + m) % 7) - 3

\* InformationConservationNetwork.call: an estimate that is a function of the
\* region it is given and of the class index
InformationNetwork(region, cls, tr) == <<region, cls>>

\* class_generators[k], a Python list index: <<index>> or <<>> (IndexError)
ListIndex(i, n) ==
    IF 0 <= i /\ i < n THEN <<i>>
    ELSE IF -n <= i /\ i < 0 THEN <<i + n>>
    ELSE <<>>

(***************************************************************************)
(* Inputs of a call.                                                       *)
(***************************************************************************)
LogitSeqs == UNION {[1..n -> LogitVals] : n \in 1..MaxRegions}

\* real pixels: the tanh range and the extremes beyond it
RealVals == {-MaxReal, -1, 0, 1, MaxReal}

\* class indices: those of the generator, the last one counted from the end,
\* and one past either end of the list
ClassIndices == {-(NClasses + 1), -1} \cup 0..NClasses

Inputs ==
    [k : ClassIndices, update_generator : BOOLEAN, training : BOOLEAN,
     real : RealVals, logits : LogitSeqs, size : Sizes, batch : BatchSizes]

NoHist == [cbn |-> <<>>, concat |-> <<>>, up |-> <<>>,
           contrib |-> [c \in 0..(MaxRegions - 1) |-> 0],
           pipe_runs |-> 0, u0 |-> 0]

n_regions == Len(batch_masks_logits)

Init ==
    /\ pc = "idle" /\ k = 0 /\ update_generator = FALSE /\ training = FALSE
    /\ batch_images_real = 0 /\ batch_masks_logits = <<>> /\ size = 0
    /\ batch_size = 0 /\ selected = <<>> /\ z_k = <<>> /\ batch_images_fake = 0
    /\ batch_region_k_fake = <<>> /\ region_raw = <<>> /\ kk = 0 /\ stage = 0
    /\ x = [h |-> 0, ch |-> 0] /\ sn_u = 0 /\ info_calls = 0
    /\ batch_z_k_hat = <<>> /\ result = <<>> /\ fault = "" /\ hist = NoHist
    /\ prev = <<>>

(***************************************************************************)
(* Generator.call, up to the invocation of the class generator.            *)
(***************************************************************************)
GeneratorCall(inp) ==
    /\ pc = "idle"
    /\ k' = inp.k
    /\ update_generator' = inp.update_generator
    /\ training' = inp.training
    /\ batch_images_real' = inp.real
    /\ batch_masks_logits' = inp.logits
    /\ size' = inp.size
    /\ batch_size' = inp.batch
    /\ selected' = ListIndex(inp.k, NClasses)
    /\ hist' = [hist EXCEPT !.u0 = sn_u]
    /\ IF ListIndex(inp.k, NClasses) = <<>>
       THEN pc' = "fault" /\ fault' = "IndexError"
       ELSE pc' = "class_generator" /\ fault' = ""
    /\ UNCHANGED <<z_k, batch_images_fake, batch_region_k_fake, region_raw, kk, stage,
                   x, sn_u, info_calls, batch_z_k_hat, result, prev>>

(***************************************************************************)
(* ClassGenerator.call: batch size, number of regions, the noise draw and  *)
(* the zero accumulator.                                                   *)
(***************************************************************************)
ClassGeneratorEntry ==
    /\ pc = "class_generator"
    /\ \E z \in NoiseVals : z_k' = <<z>>
    /\ batch_images_fake' = 0
    /\ kk' = 0
    /\ pc' = "loop"
    /\ UNCHANGED <<k, update_generator, training, batch_images_real, batch_masks_logits,
                   size, batch_size, selected, batch_region_k_fake, region_raw, stage,
                   x, sn_u, info_calls, batch_z_k_hat, result, fault, hist, prev>>

\* a variant of the else branch that assigns instead of accumulating
ReuseInputImage_Overwrite ==
    /\ pc = "loop"
    /\ kk < n_regions
    /\ kk # selected[1]
    /\ batch_images_fake' = batch_images_real * MaskOf(batch_masks_logits, kk)
    /\ hist' = [hist EXCEPT !.contrib[kk] = @ + 1]
    /\ kk' = kk + 1
    /\ UNCHANGED <<pc, k, update_generator, training, batch_images_real,
                   batch_masks_logits, size, batch_size, selected, z_k,
                   batch_region_k_fake, region_raw, stage, x, sn_u, info_calls,
                   batch_z_k_hat, result, fault, prev>>

\* the else branch of the loop: the real image times the mask of class kk
ReuseInputImage ==
    /\ pc = "loop"
    /\ kk < n_regions
    /\ kk # selected[1]
    /\ batch_images_fake' =
           batch_images_fake + batch_images_real * MaskOf(batch_masks_logits, kk)
    /\ hist' = [hist EXCEPT !.contrib[kk] = @ + 1]
    /\ kk' = kk + 1
    /\ UNCHANGED <<pc, k, update_generator, training, batch_images_real,
                   batch_masks_logits, size, batch_size, selected, z_k,
                   batch_region_k_fake, region_raw, stage, x, sn_u, info_calls,
                   batch_z_k_hat, result, fault, prev>>

\* a variant that runs the normalized layers in training mode whatever the flag
LayerTraining_AlwaysOn == TRUE

\* the training argument ClassGenerator.call hands to every block
LayerTraining == training

PipelineFrame ==
    UNCHANGED <<k, update_generator, training, batch_images_real, batch_masks_logits,
                size, batch_size, selected, z_k, batch_images_fake,
                batch_region_k_fake, kk, info_calls, batch_z_k_hat, result, prev>>

\* the if branch of the loop enters the pipeline with InputBlock.call
InputBlockCall ==
    /\ pc = "loop"
    /\ kk < n_regions
    /\ kk = selected[1]
    /\ LET oc == BaseChannels * OutputFactor(1) IN
       /\ x' = [h |-> GridSize, ch |-> oc]
       /\ hist' = [hist EXCEPT !.cbn = Append(@, <<1, oc, oc>>),
                               !.pipe_runs = @ + 1]
    /\ stage' = 1
    /\ pc' = "pipeline"
    /\ UNCHANGED <<region_raw, sn_u, fault>>
    /\ PipelineFrame

\* ResidualUpsamplingBlock.call of the stage after the one last completed
ResidualUpsamplingBlockCall ==
    /\ pc = "pipeline"
    /\ stage + 1 \in UpResStages
    /\ LET s == stage + 1
           ic == BaseChannels * InputFactor(s)
           oc == BaseChannels * OutputFactor(s)
           mh == MaskPool(size, MaskScale(s))
       IN
       \* process_identity runs first: up-sampling, then a normalized convolution
       /\ sn_u' = SNStep(sn_u, LayerTraining)
       /\ IF ~CbnOk(ic, x.ch)
          THEN /\ pc' = "fault" /\ fault' = "InvalidArgumentError"
               /\ hist' = [hist EXCEPT !.cbn = Append(@, <<s, ic, x.ch>>)]
               /\ UNCHANGED <<x, stage>>
          ELSE IF mh # x.h
          THEN /\ pc' = "fault" /\ fault' = "InvalidArgumentError"
               /\ hist' = [hist EXCEPT !.cbn = Append(@, <<s, ic, x.ch>>),
                                       !.concat = Append(@, <<s, mh, x.h, 0, 0>>)]
               /\ UNCHANGED <<x, stage>>
          ELSE /\ x' = [h |-> Upsample(x.h), ch |-> oc]
               /\ hist' = [hist EXCEPT
                      !.cbn = @ \o << <<s, ic, x.ch>>, <<s, oc, oc>> >>,
                      !.concat = Append(@, <<s, mh, x.h, CbnChannels(ic, x.ch),
                                             CbnChannels(ic, x.ch) + 1>>),
                      !.up = Append(@, <<s, x.h, Upsample(x.h)>>)]
               /\ stage' = s
               /\ UNCHANGED <<pc, fault>>
    /\ UNCHANGED region_raw
    /\ PipelineFrame

\* block_3
SelfAttentionCall ==
    /\ pc = "pipeline"
    /\ stage = 5
    /\ IF SelfAttentionOk(x, BaseChannels * OutputFactor(6))
       THEN stage' = 6 /\ UNCHANGED <<pc, fault>>
       ELSE pc' = "fault" /\ fault' = "InvalidArgumentError" /\ UNCHANGED stage
    /\ UNCHANGED <<x, region_raw, sn_u, hist>>
    /\ PipelineFrame

\* OutputBlock.call
OutputBlockCall ==
    /\ pc = "pipeline"
    /\ stage = 7
    /\ LET s == 8
           ic == BaseChannels * InputFactor(s)
           mh == MaskPool(size, MaskScale(s))
       IN
       IF ~CbnOk(ic, x.ch)
       THEN /\ pc' = "fault" /\ fault' = "InvalidArgumentError"
            /\ hist' = [hist EXCEPT !.cbn = Append(@, <<s, ic, x.ch>>)]
            /\ UNCHANGED <<x, stage, sn_u, region_raw>>
       ELSE IF mh # x.h
       THEN /\ pc' = "fault" /\ fault' = "InvalidArgumentError"
            /\ hist' = [hist EXCEPT !.cbn = Append(@, <<s, ic, x.ch>>),
                                    !.concat = Append(@, <<s, mh, x.h, 0, 0>>)]
            /\ UNCHANGED <<x, stage, sn_u, region_raw>>
       ELSE /\ sn_u' = SNStep(sn_u, LayerTraining)
            /\ region_raw' = <<Tanh(ConvOut(z_k[1], SNStep(sn_u, LayerTraining),
                                            MaskOf(batch_masks_logits, kk)))>>
            /\ x' = [h |-> x.h, ch |-> ImageChannels]
            /\ hist' = [hist EXCEPT
                   !.cbn = Append(@, <<s, ic, x.ch>>),
                   !.concat = Append(@, <<s, mh, x.h, CbnChannels(ic, x.ch),
                                          CbnChannels(ic, x.ch) + 1>>)]
            /\ stage' = s
            /\ pc' = "accumulate"
            /\ UNCHANGED fault
    /\ PipelineFrame

\* a variant that hands back the region before the mask is applied
MaskedRegion_Raw(raw, m) == raw * WeightUnit

\* the region handed back by the pipeline, in units of 1/WeightUnit
MaskedRegion(raw, m) == raw * m

\* a variant of the if branch that adds the region without its mask
AddRedrawnRegion_Unmasked ==
    /\ pc = "accumulate"
    /\ batch_region_k_fake' =
           <<MaskedRegion(region_raw[1], MaskOf(batch_masks_logits, kk))>>
    /\ batch_images_fake' = batch_images_fake + region_raw[1] * WeightUnit
    /\ hist' = [hist EXCEPT !.contrib[kk] = @ + 1]
    /\ kk' = kk + 1
    /\ pc' = "loop"
    /\ UNCHANGED <<k, update_generator, training, batch_images_real,
                   batch_masks_logits, size, batch_size, selected, z_k, region_raw,
                   stage, x, sn_u, info_calls, batch_z_k_hat, result, fault, prev>>

\* the rest of the if branch: mask the region, add it to the fake image
AddRedrawnRegion ==
    /\ pc = "accumulate"
    /\ LET r == MaskedRegion(region_raw[1], MaskOf(batch_masks_logits, kk)) IN
       /\ batch_region_k_fake' = <<r>>
       /\ batch_images_fake' = batch_images_fake + r
    /\ hist' = [hist EXCEPT !.contrib[kk] = @ + 1]
    /\ kk' = kk + 1
    /\ pc' = "loop"
    /\ UNCHANGED <<k, update_generator, training, batch_images_real,
                   batch_masks_logits, size, batch_size, selected, z_k, region_raw,
                   stage, x, sn_u, info_calls, batch_z_k_hat, result, fault, prev>>

\* a variant whose region starts as a zero tensor, so the return never faults
ClassGeneratorReturn_ZeroRegion ==
    /\ pc = "loop"
    /\ kk >= n_regions
    /\ batch_region_k_fake' =
           IF batch_region_k_fake = <<>> THEN <<0>> ELSE batch_region_k_fake
    /\ pc' = "generator" /\ fault' = ""
    /\ UNCHANGED <<k, update_generator, training, batch_images_real,
                   batch_masks_logits, size, batch_size, selected, z_k,
                   batch_images_fake, region_raw, kk, stage, x,
                   sn_u, info_calls, batch_z_k_hat, result, hist, prev>>

\* the return statement of ClassGenerator.call, after the loop
ClassGeneratorReturn ==
    /\ pc = "loop"
    /\ kk >= n_regions
    /\ IF batch_region_k_fake = <<>>
       THEN pc' = "fault" /\ fault' = "UnboundLocalError"
       ELSE pc' = "generator" /\ fault' = ""
    /\ UNCHANGED <<k, update_generator, training, batch_images_real,
                   batch_masks_logits, size, batch_size, selected, z_k,
                   batch_images_fake, batch_region_k_fake, region_raw, kk, stage, x,
                   sn_u, info_calls, batch_z_k_hat, result, hist, prev>>

(***************************************************************************)
(* Generator.call, after the class generator returned.                     *)
(***************************************************************************)
\* a variant that estimates the noise vector whatever the flag
GeneratorInformation_Unconditional ==
    /\ pc = "generator"
    /\ info_calls' = info_calls + 1
    /\ batch_z_k_hat' = <<InformationNetwork(batch_region_k_fake[1], k, training)>>
    /\ pc' = "generator_return"
    /\ UNCHANGED <<k, update_generator, training, batch_images_real,
                   batch_masks_logits, size, batch_size, selected, z_k,
                   batch_images_fake, batch_region_k_fake, region_raw, kk, stage, x,
                   sn_u, result, fault, hist, prev>>

\* "if update_generator: batch_z_k_hat = self.information_network(...)"
GeneratorInformation ==
    /\ pc = "generator"
    /\ IF update_generator
       THEN /\ info_calls' = info_calls + 1
            /\ batch_z_k_hat' =
                   <<InformationNetwork(batch_region_k_fake[1], k, training)>>
       ELSE UNCHANGED <<info_calls, batch_z_k_hat>>
    /\ pc' = "generator_return"
    /\ UNCHANGED <<k, update_generator, training, batch_images_real,
                   batch_masks_logits, size, batch_size, selected, z_k,
                   batch_images_fake, batch_region_k_fake, region_raw, kk, stage, x,
                   sn_u, result, fault, hist, prev>>

\* shape of batch_images_fake: the accumulator plus the masked region
FakeShape == <<batch_size, x.h, x.h, x.ch>>

\* the value Generator.call returns
ReturnValue ==
    IF update_generator
    THEN [kind |-> "triple", image |-> batch_images_fake, shape |-> FakeShape,
          z |-> z_k[1], z_hat |-> batch_z_k_hat[1]]
    ELSE [kind |-> "image", image |-> batch_images_fake, shape |-> FakeShape]

GeneratorReturn ==
    /\ pc = "generator_return"
    /\ result' = <<ReturnValue>>
    /\ pc' = "done"
    /\ UNCHANGED <<k, update_generator, training, batch_images_real,
                   batch_masks_logits, size, batch_size, selected, z_k,
                   batch_images_fake, batch_region_k_fake, region_raw, kk, stage, x,
                   sn_u, info_calls, batch_z_k_hat, fault, hist, prev>>

\* the call is over (returned or raised); only the layers' state outlives it
Forget ==
    /\ pc' = "idle" /\ k' = 0 /\ update_generator' = FALSE /\ training' = FALSE
    /\ batch_images_real' = 0 /\ batch_masks_logits' = <<>> /\ size' = 0
    /\ batch_size' = 0 /\ selected' = <<>> /\ z_k' = <<>> /\ batch_images_fake' = 0
    /\ batch_region_k_fake' = <<>> /\ region_raw' = <<>> /\ kk' = 0 /\ stage' = 0
    /\ x' = [h |-> 0, ch |-> 0] /\ info_calls' = 0
    /\ batch_z_k_hat' = <<>> /\ result' = <<>> /\ fault' = "" /\ hist' = NoHist
    /\ UNCHANGED sn_u

CallOver ==
    /\ pc \in {"done", "fault"}
    /\ Forget
    /\ UNCHANGED prev

Call == pc = "idle" /\ \E inp \in Inputs : GeneratorCall(inp)

Next ==
    \/ Call
    \/ ClassGeneratorEntry
    \/ ReuseInputImage
    \/ InputBlockCall
    \/ ResidualUpsamplingBlockCall
    \/ SelfAttentionCall
    \/ OutputBlockCall
    \/ AddRedrawnRegion
    \/ ClassGeneratorReturn
    \/ GeneratorInformation
    \/ GeneratorReturn
    \/ CallOver

Spec == Init /\ [][Next]_vars

(***************************************************************************)
(* Two and more passes compared: the same machine, which also keeps the   *)
(* inputs and the output of the last inference (training=False) pass.      *)
(***************************************************************************)
PassKey ==
    [z |-> z_k, u |-> hist.u0, real |-> batch_images_real,
     logits |-> batch_masks_logits, k |-> k, size |-> size, batch |-> batch_size,
     update_generator |-> update_generator]

CallOverRecorded ==
    /\ pc \in {"done", "fault"}
    /\ prev' = IF pc = "done" /\ ~training
               THEN <<[key |-> PassKey, out |-> result[1]]>>
               ELSE prev
    /\ Forget

DetInputs ==
    {inp \in Inputs :
        /\ inp.k \in {0, 1}
        /\ inp.real \in {0, 1}
        /\ inp.logits \in {<<0, 1>>, <<1, 0>>, <<0, 0>>}
        /\ inp.size = 128
        /\ inp.batch = 1
        /\ ~inp.update_generator}

CallDet == pc = "idle" /\ \E inp \in DetInputs : GeneratorCall(inp)

NextDet ==
    \/ CallDet
    \/ ClassGeneratorEntry
    \/ ReuseInputImage
    \/ InputBlockCall
    \/ ResidualUpsamplingBlockCall
    \/ SelfAttentionCall
    \/ OutputBlockCall
    \/ AddRedrawnRegion
    \/ ClassGeneratorReturn
    \/ GeneratorInformation
    \/ GeneratorReturn
    \/ CallOverRecorded

SpecDet == Init /\ [][NextDet]_vars

(***************************************************************************)
(* Vocabulary of the properties.                                           *)
(***************************************************************************)
\* ClassGenerator.call has returned to Generator.call
Returned == pc \in {"generator", "generator_return", "done"}

Weights == Softmax(batch_masks_logits)

\* sum of real * mask over the classes other than cls (0-based)
RECURSIVE OthersSum(_, _, _)
OthersSum(w, cls, c) ==
    IF c > Len(w) THEN 0
    ELSE (IF c - 1 = cls THEN 0 ELSE batch_images_real * w[c]) + OthersSum(w, cls, c + 1)

RECURSIVE OthersWeight(_, _, _)
OthersWeight(w, cls, c) ==
    IF c > Len(w) THEN 0
    ELSE (IF c - 1 = cls THEN 0 ELSE w[c]) + OthersWeight(w, cls, c + 1)

(***************************************************************************)
(* C1. A call with update_generator=False never invokes the information    *)
(* network, whatever k and training are, and what it returns is the fake   *)
(* image alone: no noise vector and no estimate come with it.              *)
(***************************************************************************)
C1_NoInformationCall ==
    ~update_generator =>
        /\ info_calls = 0
        /\ batch_z_k_hat = <<>>
        /\ pc = "done" =>
              /\ result[1].kind = "image"
              /\ DOMAIN result[1] = {"kind", "image", "shape"}
              /\ result[1].image = batch_images_fake

C1_Witness ==
    /\ pc = "done" /\ ~update_generator /\ training /\ k = 1
    /\ result[1].kind = "image"

(***************************************************************************)
(* C2 as stated, for the class indices of the generator. A call with       *)
(* update_generator=True returns (fake image, z, z_hat) with z the noise   *)
(* drawn by the class generator and z_hat the information network applied  *)
(* once to the OutputBlock's output before it is multiplied by the class   *)
(* mask.                                                                   *)
(***************************************************************************)
C2_RawRegionEstimated ==
    (pc = "done" /\ update_generator /\ k \in 0..(NClasses - 1)) =>
        /\ result[1].kind = "triple"
        /\ result[1].z = z_k[1]
        /\ info_calls = 1
        /\ result[1].z_hat =
               InformationNetwork(region_raw[1] * WeightUnit, k, training)

(***************************************************************************)
(* C2 amended. A call with update_generator=True that returns, returns     *)
(* (fake image, z, z_hat) with z the noise drawn by the class generator    *)
(* and z_hat the information network applied once to the region the class  *)
(* generator hands back, which is the OutputBlock's output multiplied by   *)
(* the mask of the redrawn class.                                          *)
(***************************************************************************)
C2_MaskedRegionEstimated ==
    (pc = "done" /\ update_generator) =>
        /\ result[1].kind = "triple"
        /\ result[1].image = batch_images_fake
        /\ result[1].z = z_k[1]
        /\ info_calls = 1
        /\ batch_region_k_fake =
               <<region_raw[1] * MaskOf(batch_masks_logits, selected[1])>>
        /\ result[1].z_hat =
               InformationNetwork(
                   region_raw[1] * MaskOf(batch_masks_logits, selected[1]), k, training)

C2_Witness ==
    /\ pc = "done" /\ update_generator
    /\ region_raw[1] # 0
    /\ MaskOf(batch_masks_logits, selected[1]) \notin {0, WeightUnit}
    /\ result[1].z_hat[1] # region_raw[1] * WeightUnit

(***************************************************************************)
(* C3. Identity reconstruction: when the pipeline's output at a pixel is   *)
(* the real pixel, the composite is the real pixel times the sum of the    *)
(* mask weights (the accumulator starts at zero, every class adds its      *)
(* weight times the real pixel), hence the real pixel itself when the      *)
(* weights sum to one.                                                     *)
(***************************************************************************)
C3_IdentityReconstruction ==
    (Returned /\ region_raw = <<batch_images_real>>) =>
        /\ batch_images_fake = SumSeq(Weights) * batch_images_real
        /\ SumSeq(Weights) = WeightUnit =>
               batch_images_fake = WeightUnit * batch_images_real

C3_Witness ==
    /\ Returned /\ region_raw = <<batch_images_real>>
    /\ batch_images_real # 0
    /\ n_regions >= 2
    /\ SumSeq(Weights) = WeightUnit
    /\ MaskOf(batch_masks_logits, selected[1]) \notin {0, WeightUnit}

C5_OutOfRangeFaults ==
    (pc # "idle" /\ k \notin 0..(NClasses - 1)) =>
        /\ selected = <<>>
        /\ pc = "fault"
        /\ result = <<>>
        /\ info_calls = 0

C7_OtherRegionsPassThrough ==
    Returned =>
        LET cls == selected[1]
            mk == MaskOf(batch_masks_logits, cls)
        IN  /\ hist.pipe_runs = 1
            /\ \A c \in 0..(n_regions - 1) : hist.contrib[c] = 1
            /\ \A c \in n_regions..(MaxRegions - 1) : hist.contrib[c] = 0
            /\ batch_images_fake =
                   region_raw[1] * mk + OthersSum(Weights, cls, 1)
            /\ (mk = 0 /\ OthersWeight(Weights, cls, 1) = WeightUnit) =>
                   batch_images_fake = WeightUnit * batch_images_real

C7_Witness ==
    /\ Returned
    /\ MaskOf(batch_masks_logits, selected[1]) = 0
    /\ OthersWeight(Weights, selected[1], 1) = WeightUnit
    /\ n_regions = 3
    /\ region_raw[1] # batch_images_real
    /\ region_raw[1] # 0
    /\ batch_images_real # 0

(***************************************************************************)
(* C8. Channel counts agree along the pipeline: the factor a stage         *)
(* produces is the factor the next stage is built for (16, 16, 8, 4, 2, 2, *)
(* 1), every conditional normalization met during a pass has as many       *)
(* filters as the feature map it receives has channels, and concatenating  *)
(* the mask adds exactly one channel.                                      *)
(***************************************************************************)
C8_ChannelConsistency ==
    /\ \A s \in 1..(NStages - 1) : OutputFactor(s) = InputFactor(s + 1)
    /\ \A i \in DOMAIN hist.cbn : hist.cbn[i][2] = hist.cbn[i][3]
    /\ \A i \in DOMAIN hist.concat :
           hist.concat[i][2] = hist.concat[i][3] =>
               /\ hist.concat[i][5] = hist.concat[i][4] + 1
               /\ hist.concat[i][4] = BaseChannels * InputFactor(hist.concat[i][1])
    /\ (pc = "pipeline" /\ stage \in 1..7) =>
           x.ch = BaseChannels * <<16, 16, 8, 4, 2, 2, 1>>[stage]

C8_Witness ==
    /\ pc = "accumulate"
    /\ Len(hist.cbn) = 12
    /\ Len(hist.concat) = 6
    /\ hist.cbn[12] = <<8, 32, 32>>
    /\ hist.concat[6][5] = 33

(***************************************************************************)
(* C9. Spatial sizes: every ResidualUpsamplingBlock returns 2H for H; for  *)
(* a 128x128 mask the five blocks meet feature maps of size 4, 8, 16, 32   *)
(* and 64, the mask pooled by the block's scale (32, 16, 8, 4, 2) has that *)
(* very size, and the OutputBlock receives a 128x128 feature map and the   *)
(* mask at full resolution.                                                *)
(***************************************************************************)
C9_SpatialSchedule ==
    /\ \A i \in DOMAIN hist.up : hist.up[i][3] = 2 * hist.up[i][2]
    /\ size = 128 =>
           /\ \A i \in DOMAIN hist.concat :
                  /\ hist.concat[i][3] = <<4, 8, 16, 32, 64, 128>>[i]
                  /\ hist.concat[i][2] = hist.concat[i][3]
                  /\ hist.concat[i][2] * <<32, 16, 8, 4, 2, 1>>[i] = 128
           /\ fault # "InvalidArgumentError"
           /\ pc = "accumulate" => x.h = 128

C9_Witness ==
    /\ pc = "accumulate" /\ size = 128
    /\ Len(hist.up) = 5
    /\ hist.up[5] = <<7, 64, 128>>
    /\ hist.concat[6][2] = 128

====
